---- MODULE Spec2Model ----
(***************************************************************************)
(* speak_name.py: one command-line invocation that validates its           *)
(* arguments, builds the text to speak, issues one POST to the TTS         *)
(* provider, writes the audio bytes to the output path, prints one JSON    *)
(* result and exits.                                                       *)
(*                                                                         *)
(* Strings are sequences of one-character strings, so that strip(),        *)
(* strip('/'), replace(' ', ''), isupper() and float() are computed the    *)
(* way Python computes them.                                               *)
(***************************************************************************)
EXTENDS Integers, Sequences, FiniteSets, TLC

VARIABLES
    argv,           \* sys.argv, argv[1] being the program name
    pc,             \* position of the invocation in main / generate_name_audio
    posts,          \* number of requests.post calls issued so far
    text_to_speak,  \* the "text" of the payload, once built
    outcome,        \* what requests.post returned or raised
    file_before,    \* the file at the output path when the process started
    file,           \* the file at the output path now
    io,             \* what open() and f.write() did
    result,         \* the dict main is about to print (<<>> or <<dict>>)
    stdout,         \* the JSON objects printed so far
    uncaught,       \* the exception that left main, if any
    exit_code       \* the exit status, once the process has ended

vars == <<argv, pc, posts, text_to_speak, outcome, file_before, file, io,
          result, stdout, uncaught, exit_code>>

----------------------------------------------------------------------------
(* Bounds of the model *)

\* longest phonetic hint explored by the text-selection specification
MaxHintLen == 3

\* longest response body (in bytes) of a 200 answer
MaxBody == 2

----------------------------------------------------------------------------
(* Characters and Python string methods *)

Whitespace == {" ", "\t"}

UpperLetters == {"A", "B", "C", "I", "K", "M", "P", "U"}

LowerLetters == {"a", "b", "e", "i", "l", "n", "o", "t", "v", "x"}

Digits == {"0", "1", "2", "3"}

RECURSIVE LStrip(_, _)
LStrip(s, chars) ==
    IF s # <<>> /\ Head(s) \in chars THEN LStrip(Tail(s), chars) ELSE s

RECURSIVE RStrip(_, _)
RStrip(s, chars) ==
    IF s # <<>> /\ s[Len(s)] \in chars
    THEN RStrip(SubSeq(s, 1, Len(s) - 1), chars)
    ELSE s

\* str.strip(): leading and trailing whitespace removed
Strip(s) == RStrip(LStrip(s, Whitespace), Whitespace)

\* str.strip('/'): leading and trailing slashes removed
StripSlash(s) == RStrip(LStrip(s, {"/"}), {"/"})

\* str.replace(' ', ''): every space removed (tabs stay)
RECURSIVE RemoveSpaces(_)
RemoveSpaces(s) ==
    IF s = <<>> THEN <<>>
    ELSE IF Head(s) = " " THEN RemoveSpaces(Tail(s))
    ELSE <<Head(s)>> \o RemoveSpaces(Tail(s))

\* str.isupper(): at least one cased character and no lowercase one
IsUpper(s) ==
    /\ \E i \in 1..Len(s) : s[i] \in UpperLetters
    /\ \A i \in 1..Len(s) : s[i] \notin LowerLetters

\* str.startswith(prefix)
StartsWith(s, prefix) ==
    /\ Len(s) >= Len(prefix)
    /\ SubSeq(s, 1, Len(prefix)) = prefix

\* float(s) succeeds: after strip(), digits with at most one point and at
\* least one digit (the only floats the model's characters can spell)
FloatParses(s) ==
    LET t == Strip(s) IN
    /\ \A i \in 1..Len(t) : t[i] \in Digits \cup {"."}
    /\ Cardinality({i \in 1..Len(t) : t[i] = "."}) <= 1
    /\ \E i \in 1..Len(t) : t[i] \in Digits

\* "not s or not s.strip()"
Blank(s) == s = <<>> \/ Strip(s) = <<>>

----------------------------------------------------------------------------
(* Text-to-speak selection *)

\* None: an optional argument that was not given
None == <<"<None>">>

IPA_NOT_AVAILABLE ==
    <<"I", "P", "A", " ", "n", "o", "t", " ",
      "a", "v", "a", "i", "l", "a", "b", "l", "e">>

CMU_NOT_AVAILABLE ==
    <<"C", "M", "U", " ", "n", "o", "t", " ",
      "a", "v", "a", "i", "l", "a", "b", "l", "e">>

\* the condition of the outer "if": a usable hint was given
HintUsable(ipa) ==
    /\ ipa # None
    /\ ipa # <<>>
    /\ Strip(ipa) # <<>>
    /\ ipa # IPA_NOT_AVAILABLE
    /\ ~StartsWith(ipa, CMU_NOT_AVAILABLE)

IpaClean(ipa) == StripSlash(Strip(ipa))

\* a variant of LooksCMU that forgets the case test
LooksCMU_DigitOnly(ipa_clean) ==
    \E i \in 1..Len(ipa_clean) : ipa_clean[i] \in {"0", "1", "2"}

\* the condition of the inner "if": the cleaned hint is CMU Arpabet
LooksCMU(ipa_clean) ==
    /\ \E i \in 1..Len(ipa_clean) : ipa_clean[i] \in {"0", "1", "2"}
    /\ IsUpper(RemoveSpaces(ipa_clean))

\* <phoneme alphabet='...' ph='...'>name</phoneme>
PhonemeTag(alphabet, ph, name) ==
    [tag |-> "phoneme", alphabet |-> alphabet, ph |-> ph, text |-> name]

\* plain text, no tag
PlainText(t) ==
    [tag |-> "none", alphabet |-> "none", ph |-> <<>>, text |-> t]

TextToSpeak(name, phonetic_text, ipa) ==
    IF HintUsable(ipa)
    THEN IF LooksCMU(IpaClean(ipa))
         THEN PhonemeTag("cmu-arpabet", IpaClean(ipa), name)
         ELSE PhonemeTag("ipa", IpaClean(ipa), name)
    ELSE PlainText(StripSlash(Strip(phonetic_text)))

----------------------------------------------------------------------------
(* Results and error messages *)

NoDetail == [kind |-> "none", msg |-> "", len |-> 0]

\* a fixed error message
Msg(text) == [text |-> text, status |-> 0, detail |-> NoDetail]

Failure(error) == [success |-> FALSE, error |-> error]

Success(audio_path, size) ==
    [success |-> TRUE, audio_path |-> audio_path, size |-> size]

USAGE == Msg("Usage: python3 speak_name.py \"Name\" \"Phonetic_Text\" api_key voice_id [output_path] [speed] [ipa]")

NAME_EMPTY == Msg("Name cannot be empty")

PHONETIC_EMPTY == Msg("Phonetic text cannot be empty")

NO_API_KEY == Msg("ElevenLabs API key not provided")

NO_VOICE_ID == Msg("ElevenLabs voice ID not provided")

NO_OUTPUT_PATH == Msg("Output path must be provided by calling application")

TIMEOUT == Msg("Request timeout - please try again")

CONNECTION_ERROR == Msg("Connection error - check your internet connection")

\* f"Unexpected error: {str(e)}"
Unexpected(desc) ==
    [text |-> "Unexpected error", status |-> 0,
     detail |-> [kind |-> "exception", msg |-> desc, len |-> 0]]

----------------------------------------------------------------------------
(* The provider's answer *)

\* response.text[:200]: the raw body is modelled by its length
TEXT_LIMIT == 200

Min(a, b) == IF a < b THEN a ELSE b

TextPrefix(response) ==
    [kind |-> "body", msg |-> "", len |-> Min(response.text_len, TEXT_LIMIT)]

\* the part of the message after "API error N: ".  response.json is
\*   "invalid"     the body is not JSON (json() raises)
\*   "not_dict"    JSON that is not an object (.get raises)
\*   "no_detail"   an object without "detail" (the default {} is used)
\*   "dict"        "detail" is an object with a "message"
\*   "dict_no_msg" "detail" is an object without "message"
\*   "scalar"      "detail" is not an object
ErrorDetail(response) ==
    CASE response.json \in {"invalid", "not_dict"} -> TextPrefix(response)
      [] response.json \in {"no_detail", "dict_no_msg"} -> TextPrefix(response)
      [] response.json = "dict" ->
            [kind |-> "message", msg |-> response.message, len |-> 0]
      [] response.json = "scalar" ->
            [kind |-> "detail", msg |-> response.message, len |-> 0]

\* f"API error {response.status_code}: ..."
ApiError(response) ==
    [text |-> "API error", status |-> response.status_code,
     detail |-> ErrorDetail(response)]

\* a variant of ExceptionResult with the first two clauses exchanged
ExceptionResult_ConnectionFirst(exc) ==
    IF "ConnectionError" \in exc.classes THEN Failure(CONNECTION_ERROR)
    ELSE IF "Timeout" \in exc.classes THEN Failure(TIMEOUT)
    ELSE Failure(Unexpected(exc.desc))

\* the except clauses, tried in order
ExceptionResult(exc) ==
    IF "Timeout" \in exc.classes THEN Failure(TIMEOUT)
    ELSE IF "ConnectionError" \in exc.classes THEN Failure(CONNECTION_ERROR)
    ELSE Failure(Unexpected(exc.desc))

\* a variant of ExitCode that reports every ending as a success
ExitCode_AlwaysZero(r) == 0

\* sys.exit(0 if result["success"] else 1)
ExitCode(r) == IF r.success THEN 0 ELSE 1

\* the exit status of an interpreter that ends on an uncaught exception
UNCAUGHT_EXIT == 1

----------------------------------------------------------------------------
(* Inputs *)

PROG == <<"s", "p">>

Names == {<<>>, <<" ">>, <<"A", "l">>}

Phonetics == {<<>>, <<" ", " ">>, <<"/", "a", "l", "/">>, <<" ", "a", "l">>}

Keys == {<<>>, <<"K">>}

Voices == {<<>>, <<"v">>}

OutputPaths == {<<>>, <<" ">>, <<"o">>}

Speeds == {<<"1", ".", "0">>, <<"x">>, <<>>}

Hints == {<<>>, <<"A", "1">>, <<"a">>, IPA_NOT_AVAILABLE}

FullArgs ==
    {<<n, p, k, v, o, s, h>> :
        n \in Names, p \in Phonetics, k \in Keys, v \in Voices,
        o \in OutputPaths, s \in Speeds, h \in Hints}

ArgVectors ==
    {<<PROG>> \o SubSeq(a, 1, n) : a \in FullArgs, n \in 0..7}

\* the file at the output path before the run: absent, or an older audio file
NoFile == [exists |-> FALSE, content |-> <<>>]

OldFile == [exists |-> TRUE, content |-> <<7, 7, 7>>]

Bytes == {0, 255}

RECURSIVE SeqsUpTo(_, _)
SeqsUpTo(S, n) ==
    IF n = 0 THEN {<<>>}
    ELSE LET shorter == SeqsUpTo(S, n - 1) IN
         shorter \cup {Append(s, x) : s \in shorter, x \in S}

NoOutcome ==
    [kind |-> "none", status_code |-> 0, content |-> <<>>, text_len |-> 0,
     json |-> "invalid", message |-> "", classes |-> {}, desc |-> ""]

Response(status_code, content, text_len, json, message) ==
    [kind |-> "response", status_code |-> status_code, content |-> content,
     text_len |-> text_len, json |-> json, message |-> message,
     classes |-> {}, desc |-> ""]

Raised(classes, desc) ==
    [kind |-> "exception", status_code |-> 0, content |-> <<>>,
     text_len |-> 0, json |-> "invalid", message |-> "",
     classes |-> classes, desc |-> desc]

JsonKinds ==
    {"invalid", "not_dict", "no_detail", "dict", "dict_no_msg", "scalar"}

\* everything requests.post can do: answer 200 with a body, answer another
\* status, or raise (ConnectTimeout is both a ConnectionError and a Timeout)
Outcomes ==
    {Response(200, c, 0, "invalid", "") : c \in SeqsUpTo(Bytes, MaxBody)}
    \cup {Response(st, <<>>, n, j, IF j \in {"dict", "scalar"} THEN "quota" ELSE "") :
            st \in {401, 500}, n \in {0, 200, 201}, j \in JsonKinds}
    \cup {Raised({"Timeout"}, "read timed out"),
          Raised({"ConnectionError", "Timeout"}, "connect timed out"),
          Raised({"ConnectionError"}, "refused"),
          Raised({"Other"}, "boom")}

----------------------------------------------------------------------------
(* The invocation *)

Argc == Len(argv)

\* sys.argv[i] of the source is Arg(i): sequences count from 1
Arg(i) == argv[i + 1]

name == Arg(1)

phonetic_text == Arg(2)

api_key == Arg(3)

voice_id == Arg(4)

output_path == IF Argc > 5 THEN Arg(5) ELSE None

ipa == IF Argc > 7 THEN Arg(7) ELSE None

SpeedParses == Argc > 6 => FloatParses(Arg(6))

Init ==
    /\ argv \in ArgVectors
    /\ pc = "main"
    /\ posts = 0
    /\ text_to_speak = PlainText(<<>>)
    /\ outcome = NoOutcome
    /\ file_before \in {NoFile, OldFile}
    /\ file = file_before
    /\ io = "none"
    /\ result = <<>>
    /\ stdout = <<>>
    /\ uncaught = "none"
    /\ exit_code = -1

\* print(json.dumps(r)); sys.exit(code)
PrintAndExit(r, code) ==
    /\ stdout' = Append(stdout, r)
    /\ exit_code' = code
    /\ pc' = "exited"

\* main: the argument count check and the parsing of the arguments
ParseArgs ==
    /\ pc = "main"
    /\ IF Argc < 5
       THEN /\ PrintAndExit(Failure(USAGE), 1)
            /\ UNCHANGED uncaught
       ELSE IF ~SpeedParses
       THEN /\ uncaught' = "ValueError"
            /\ exit_code' = UNCAUGHT_EXIT
            /\ pc' = "exited"
            /\ UNCHANGED stdout
       ELSE /\ pc' = "validate"
            /\ UNCHANGED <<stdout, exit_code, uncaught>>
    /\ UNCHANGED <<argv, posts, text_to_speak, outcome, file_before, file,
                   io, result>>

\* a variant of ValidateNames that checks the phonetic text first
ValidateNames_PhoneticFirst ==
    /\ pc = "validate"
    /\ IF Blank(phonetic_text)
       THEN PrintAndExit(Failure(PHONETIC_EMPTY), 1)
       ELSE IF Blank(name)
       THEN PrintAndExit(Failure(NAME_EMPTY), 1)
       ELSE /\ pc' = "generate"
            /\ UNCHANGED <<stdout, exit_code>>
    /\ UNCHANGED <<argv, posts, text_to_speak, outcome, file_before, file,
                   io, result, uncaught>>

\* main: "Validate name and phonetic text"
ValidateNames ==
    /\ pc = "validate"
    /\ IF Blank(name)
       THEN PrintAndExit(Failure(NAME_EMPTY), 1)
       ELSE IF Blank(phonetic_text)
       THEN PrintAndExit(Failure(PHONETIC_EMPTY), 1)
       ELSE /\ pc' = "generate"
            /\ UNCHANGED <<stdout, exit_code>>
    /\ UNCHANGED <<argv, posts, text_to_speak, outcome, file_before, file,
                   io, result, uncaught>>

\* generate_name_audio returns r to main
Return(r) ==
    /\ result' = <<r>>
    /\ pc' = "print"

\* a variant of Generate that checks the voice id before the API key
Generate_VoiceFirst ==
    /\ pc = "generate"
    /\ IF voice_id = <<>>
       THEN /\ Return(Failure(NO_VOICE_ID))
            /\ UNCHANGED text_to_speak
       ELSE IF api_key = <<>>
       THEN /\ Return(Failure(NO_API_KEY))
            /\ UNCHANGED text_to_speak
       ELSE /\ text_to_speak' = TextToSpeak(name, phonetic_text, ipa)
            /\ pc' = "post"
            /\ UNCHANGED result
    /\ UNCHANGED <<argv, posts, outcome, file_before, file, io, stdout,
                   uncaught, exit_code>>

\* generate_name_audio: "Validate inputs", then build the text and payload
Generate ==
    /\ pc = "generate"
    /\ IF api_key = <<>>
       THEN /\ Return(Failure(NO_API_KEY))
            /\ UNCHANGED text_to_speak
       ELSE IF voice_id = <<>>
       THEN /\ Return(Failure(NO_VOICE_ID))
            /\ UNCHANGED text_to_speak
       ELSE /\ text_to_speak' = TextToSpeak(name, phonetic_text, ipa)
            /\ pc' = "post"
            /\ UNCHANGED result
    /\ UNCHANGED <<argv, posts, outcome, file_before, file, io, stdout,
                   uncaught, exit_code>>

\* generate_name_audio: requests.post(url, headers, json, timeout=30)
Post ==
    /\ pc = "post"
    /\ posts' = posts + 1
    /\ outcome' \in Outcomes
    /\ pc' = "respond"
    /\ UNCHANGED <<argv, text_to_speak, file_before, file, io, result,
                   stdout, uncaught, exit_code>>

\* a retrying variant of Respond: a raised exception sends the call again
Respond_Retry ==
    /\ pc = "respond"
    /\ IF outcome.kind = "exception"
       THEN /\ pc' = "post"
            /\ UNCHANGED result
       ELSE IF outcome.status_code # 200
       THEN Return(Failure(ApiError(outcome)))
       ELSE IF output_path = None \/ Blank(output_path)
       THEN Return(Failure(NO_OUTPUT_PATH))
       ELSE /\ pc' = "save"
            /\ UNCHANGED result
    /\ UNCHANGED <<argv, posts, text_to_speak, outcome, file_before, file,
                   io, stdout, uncaught, exit_code>>

\* generate_name_audio: the except clauses, "Check for errors" and
\* "Validate output path"
Respond ==
    /\ pc = "respond"
    /\ IF outcome.kind = "exception"
       THEN Return(ExceptionResult(outcome))
       ELSE IF outcome.status_code # 200
       THEN Return(Failure(ApiError(outcome)))
       ELSE IF output_path = None \/ Blank(output_path)
       THEN Return(Failure(NO_OUTPUT_PATH))
       ELSE /\ pc' = "save"
            /\ UNCHANGED result
    /\ UNCHANGED <<argv, posts, text_to_speak, outcome, file_before, file,
                   io, stdout, uncaught, exit_code>>

\* the proper prefixes of the body that a failed write can leave on disk
Prefixes(content) ==
    {SubSeq(content, 1, n) : n \in 0..(Len(content) - 1)} \cup {<<>>}

\* a variant of SaveAudio that opens the file for appending
SaveAudio_Append ==
    /\ pc = "save"
    /\ \/ /\ io' = "open_failed"
          /\ UNCHANGED file
          /\ Return(ExceptionResult(Raised({"OSError"}, "permission denied")))
       \/ /\ io' = "written"
          /\ file' = [exists |-> TRUE,
                      content |-> file.content \o outcome.content]
          /\ Return(Success(output_path, Len(outcome.content)))
    /\ UNCHANGED <<argv, posts, text_to_speak, outcome, file_before, stdout,
                   uncaught, exit_code>>

\* generate_name_audio: "Save audio file".  open(output_path, "wb") raises
\* and leaves the disk alone, or creates/truncates the file; f.write then
\* stores the body, or raises with part of it on disk
SaveAudio ==
    /\ pc = "save"
    /\ \/ /\ io' = "open_failed"
          /\ UNCHANGED file
          /\ Return(ExceptionResult(Raised({"OSError"}, "permission denied")))
       \/ /\ io' = "write_failed"
          /\ \E part \in Prefixes(outcome.content) :
                file' = [exists |-> TRUE, content |-> part]
          /\ Return(ExceptionResult(Raised({"OSError"}, "no space left")))
       \/ /\ io' = "written"
          /\ file' = [exists |-> TRUE, content |-> outcome.content]
          /\ Return(Success(output_path, Len(outcome.content)))
    /\ UNCHANGED <<argv, posts, text_to_speak, outcome, file_before, stdout,
                   uncaught, exit_code>>

\* main: "Output JSON result" and "Exit with appropriate code"
PrintResult ==
    /\ pc = "print"
    /\ PrintAndExit(result[1], ExitCode(result[1]))
    /\ UNCHANGED <<argv, posts, text_to_speak, outcome, file_before, file,
                   io, result, uncaught>>

Next ==
    \/ ParseArgs
    \/ ValidateNames
    \/ Generate
    \/ Post
    \/ Respond
    \/ SaveAudio
    \/ PrintResult

Spec == Init /\ [][Next]_vars

----------------------------------------------------------------------------
(* Text selection explored on its own: the invocation stands at the call   *)
(* of generate_name_audio, with every short hint over HintAlphabet          *)

HintAlphabet == {" ", "/", "A", "a", "1", "3"}

AllHints ==
    SeqsUpTo(HintAlphabet, MaxHintLen)
    \cup {IPA_NOT_AVAILABLE, CMU_NOT_AVAILABLE,
          CMU_NOT_AVAILABLE \o <<" ", "x">>, <<" ">> \o IPA_NOT_AVAILABLE}

TextArgVectors ==
    {<<PROG, n, p, k, v>> \o rest :
        n \in {<<"A", "l">>},
        p \in {<<"/", "a", "l", "/">>, <<" ", "a", "l">>},
        k \in Keys, v \in Voices,
        rest \in {<<>>, <<<<"o">>>>, <<<<"o">>, <<"1">>>>}
                 \cup {<<<<"o">>, <<"1">>, h>> : h \in AllHints}}

InitText ==
    /\ argv \in TextArgVectors
    /\ pc = "generate"
    /\ posts = 0
    /\ text_to_speak = PlainText(<<>>)
    /\ outcome = NoOutcome
    /\ file_before \in {NoFile, OldFile}
    /\ file = file_before
    /\ io = "none"
    /\ result = <<>>
    /\ stdout = <<>>
    /\ uncaught = "none"
    /\ exit_code = -1

NextText == Generate

SpecText == InitText /\ [][NextText]_vars

----------------------------------------------------------------------------
(* Vocabulary of the properties *)

Exited == pc = "exited"

\* empty or whitespace-only
BlankText(s) == \A i \in 1..Len(s) : s[i] \in Whitespace

\* the arguments are well-formed: the four required ones are there and the
\* speed, when given, is a number
WellFormed == Argc >= 5 /\ (Argc > 6 => FloatParses(Arg(6)))

OutputPathMissing == Argc <= 5 \/ BlankText(Arg(5))

\* the invocation passes input validation: its arguments parse and the
\* checks on name, phonetic text, key and voice succeed
RequestValid ==
    /\ WellFormed
    /\ ~BlankText(name)
    /\ ~BlankText(phonetic_text)
    /\ api_key # <<>>
    /\ voice_id # <<>>

Printed(r) == stdout = <<r>>

SuccessPrinted == Len(stdout) = 1 /\ stdout[1].success

----------------------------------------------------------------------------
(* C1 *)

\* C1: an invocation whose output path is missing or blank (its other inputs
\* being valid) never issues a POST, and ends with the failure "Output path
\* must be provided by calling application".
C1_OutputPathFailsFast ==
    (RequestValid /\ OutputPathMissing) =>
        /\ posts = 0
        /\ Exited => Printed(Failure(NO_OUTPUT_PATH))

----------------------------------------------------------------------------
(* C2 *)

JsonShape(r) ==
    \/ r.success /\ DOMAIN r = {"success", "audio_path", "size"}
    \/ ~r.success /\ DOMAIN r = {"success", "error"}

\* C2: for every argument vector, the process has printed exactly one JSON
\* object of the success or the failure shape when it exits, and never more
\* than one before.
C2_ExactlyOneJson ==
    /\ Len(stdout) <= 1
    /\ Exited => (Len(stdout) = 1 /\ JsonShape(stdout[1]))

----------------------------------------------------------------------------
(* C3 *)

\* C3: an invocation that ends in a failure leaves the file at the output
\* path as it found it: not created, not truncated, not written.
C3_NoPartialFile ==
    (Exited /\ ~SuccessPrinted) => file = file_before

----------------------------------------------------------------------------
(* C4 *)

\* the four required arguments are there
RequiredGiven == Argc >= 5

ExpectedBlankFailure ==
    Failure(IF BlankText(name) THEN NAME_EMPTY ELSE PHONETIC_EMPTY)

\* C4: an invocation whose name or phonetic text is empty or whitespace-only
\* makes no network call and ends with the failure "Name cannot be empty"
\* when the name is blank, else "Phonetic text cannot be empty", whatever the
\* API key and the voice id are.
C4_EmptyNameOrPhonetic ==
    (RequiredGiven /\ (BlankText(name) \/ BlankText(phonetic_text))) =>
        /\ posts = 0
        /\ Exited => (Printed(ExpectedBlankFailure) /\ exit_code = 1)

\* what remains of C4 when the speed, if given, is a number: the two checks
\* are made in the stated order and before the key and voice checks
C4_WhenSpeedParses ==
    (WellFormed /\ (BlankText(name) \/ BlankText(phonetic_text))) =>
        /\ posts = 0
        /\ Exited => (Printed(ExpectedBlankFailure) /\ exit_code = 1)

C4_WhenSpeedParses_Reached ==
    /\ Exited
    /\ WellFormed
    /\ name = <<" ">>
    /\ phonetic_text = <<>>
    /\ api_key = <<>>
    /\ voice_id = <<>>
    /\ Printed(Failure(NAME_EMPTY))

----------------------------------------------------------------------------
(* C5 *)

\* C5: the exit code is 0 exactly when the audio was written and a success
\* result printed, and 1 in every other ending.
C5_ExitCode ==
    Exited =>
        /\ exit_code = 0 <=> (SuccessPrinted /\ io = "written")
        /\ exit_code # 0 => exit_code = 1

C5_Witness ==
    /\ Exited
    /\ exit_code = 1
    /\ outcome.kind = "response"
    /\ outcome.status_code = 200
    /\ io = "write_failed"

----------------------------------------------------------------------------
(* C6 *)

\* C6: after a 200 answer, with a non-blank output path that could be opened
\* and written, the file holds exactly the response body and the result is
\* success with the supplied path and the body's length, the empty body
\* included.
C6_AudioWritten ==
    (/\ Exited
     /\ outcome.kind = "response"
     /\ outcome.status_code = 200
     /\ ~OutputPathMissing
     /\ io \notin {"open_failed", "write_failed"}) =>
        /\ file = [exists |-> TRUE, content |-> outcome.content]
        /\ Printed(Success(Arg(5), Len(outcome.content)))

C6_Witness ==
    /\ Exited
    /\ outcome.kind = "response"
    /\ outcome.status_code = 200
    /\ outcome.content = <<>>
    /\ file_before = OldFile
    /\ file = [exists |-> TRUE, content |-> <<>>]
    /\ SuccessPrinted

----------------------------------------------------------------------------
(* C7 *)

\* C7: the POST is issued at most once in every invocation, and exactly once
\* in every invocation that passes input validation, whatever its outcome.
C7_NoRetry ==
    /\ posts <= 1
    /\ (Exited /\ RequestValid) => posts = 1
    /\ (Exited /\ ~RequestValid) => posts = 0

C7_Witness ==
    /\ Exited
    /\ RequestValid
    /\ outcome.kind = "exception"
    /\ posts = 1
    /\ exit_code = 1

----------------------------------------------------------------------------
(* C8 *)

\* the invocation reaches the call of generate_name_audio
Called == WellFormed /\ ~BlankText(name) /\ ~BlankText(phonetic_text)

----------------------------------------------------------------------------
(* C9 *)

Letters == UpperLetters \cup LowerLetters

Sentinel(h) == h = IPA_NOT_AVAILABLE \/ StartsWith(h, CMU_NOT_AVAILABLE)

\* a hint that is supplied, non-blank and not a sentinel
HintPresent(h) == h # None /\ ~BlankText(h) /\ ~Sentinel(h)

Cleaned(s) == StripSlash(Strip(s))

HasStressDigit(c) == \E i \in 1..Len(c) : c[i] \in {"0", "1", "2"}

\* "its letters are all uppercase"
LettersAllUpper(c) == \A i \in 1..Len(c) : c[i] \in Letters => c[i] \in UpperLetters

\* "... and it has at least one letter"
HasUpperLetter(c) == \E i \in 1..Len(c) : c[i] \in UpperLetters

TextBuilt == pc = "post"

\* C9 as stated: the CMU branch is taken when the cleaned hint has a digit
\* in {0,1,2} and its letters are all uppercase.
C9_AsStated ==
    TextBuilt =>
        text_to_speak =
            IF HintPresent(ipa)
            THEN IF HasStressDigit(Cleaned(ipa)) /\ LettersAllUpper(Cleaned(ipa))
                 THEN PhonemeTag("cmu-arpabet", Cleaned(ipa), name)
                 ELSE PhonemeTag("ipa", Cleaned(ipa), name)
            ELSE PlainText(Cleaned(phonetic_text))

\* C9: the text is chosen by three exclusive branches: with a usable hint
\* whose cleaned form has a digit in {0,1,2}, at least one uppercase letter
\* and no lowercase letter, the cmu-arpabet tag around the name; with any
\* other usable hint the ipa tag; without a usable hint the cleaned phonetic
\* respelling, untagged.
C9_TextSelection ==
    TextBuilt =>
        text_to_speak =
            IF HintPresent(ipa)
            THEN IF /\ HasStressDigit(Cleaned(ipa))
                    /\ LettersAllUpper(Cleaned(ipa))
                    /\ HasUpperLetter(Cleaned(ipa))
                 THEN PhonemeTag("cmu-arpabet", Cleaned(ipa), name)
                 ELSE PhonemeTag("ipa", Cleaned(ipa), name)
            ELSE PlainText(Cleaned(phonetic_text))

C9_Witness ==
    /\ TextBuilt
    /\ ipa = <<"/", "A", "1">>
    /\ text_to_speak = PhonemeTag("cmu-arpabet", <<"A", "1">>, <<"A", "l">>)

----------------------------------------------------------------------------
(* C10 *)

ExpectedDetail(r) ==
    IF r.json = "dict" THEN [kind |-> "message", msg |-> r.message, len |-> 0]
    ELSE IF r.json = "scalar" THEN [kind |-> "detail", msg |-> r.message, len |-> 0]
    ELSE [kind |-> "body", msg |-> "",
          len |-> IF r.text_len > 200 THEN 200 ELSE r.text_len]

\* C10: a non-200 status N gives "API error N" with the provider's detail or
\* the first 200 characters of the body; a timeout gives the timeout
\* message, a connection failure the connection message, any other error
\* "Unexpected error: <description>"; nothing escapes uncaught and success
\* needs a 200.
C10_FailureMapping ==
    (Exited /\ posts = 1) =>
        /\ uncaught = "none"
        /\ SuccessPrinted =>
              outcome.kind = "response" /\ outcome.status_code = 200
        /\ (outcome.kind = "response" /\ outcome.status_code # 200) =>
              Printed(Failure([text |-> "API error",
                               status |-> outcome.status_code,
                               detail |-> ExpectedDetail(outcome)]))
        /\ (outcome.kind = "exception" /\ "Timeout" \in outcome.classes) =>
              Printed(Failure(TIMEOUT))
        /\ (outcome.kind = "exception" /\ outcome.classes = {"ConnectionError"}) =>
              Printed(Failure(CONNECTION_ERROR))
        /\ (outcome.kind = "exception" /\ outcome.classes = {"Other"}) =>
              Printed(Failure(Unexpected(outcome.desc)))

C10_Witness ==
    /\ Exited
    /\ posts = 1
    /\ outcome.kind = "response"
    /\ outcome.status_code = 401
    /\ outcome.json = "invalid"
    /\ outcome.text_len = 201
    /\ stdout[1].error.detail.len = 200

====
